---- MODULE Spec2Model ----
(***************************************************************************)
(* A model of filertags: the pre-save hook that rewrites the url(...)      *)
(* references of a CSS asset (resolve_resource_urls), the post-save hooks  *)
(* that patch the CSS assets referencing a saved resource                  *)
(* (update_referencing_css_files) and drop its cached url                  *)
(* (clear_urls_cache), and the css_preprocessor view.                      *)
(*                                                                         *)
(* Text is modelled by TLA+ strings, character by character: offsets are   *)
(* Python's (0-based, half-open), and the regular expressions, str.strip,  *)
(* urlparse, os.path.join and os.path.normpath are computed as the Python  *)
(* library computes them.                                                  *)
(***************************************************************************)
EXTENDS Integers, Sequences, FiniteSets, TLC

VARIABLES
    db,       \* asset id -> the File row, its stored bytes and its upload
    cache,    \* django cache behind filerfile: logical path -> cached url
    log,      \* what the last operation did (a history variable)
    resp,     \* the last response of the css_preprocessor view
    steps     \* number of operations performed so far

vars == <<db, cache, log, resp, steps>>

----------------------------------------------------------------------------
(* Python strings *)

\* s[a:b]
Slice(s, a, b) ==
    LET lo == IF a < 0 THEN 0 ELSE a
        hi == IF b > Len(s) THEN Len(s) ELSE b
    IN  IF lo >= hi THEN "" ELSE SubSeq(s, lo + 1, hi)

\* s[i], "" when i is out of range
CharAt(s, i) == Slice(s, i, i + 1)

\* s[i:].startswith(lit)
HasAt(s, i, lit) == i >= 0 /\ Slice(s, i, i + Len(lit)) = lit

StartsWith(s, lit) == HasAt(s, 0, lit)

EndsWith(s, lit) == Len(lit) <= Len(s) /\ HasAt(s, Len(s) - Len(lit), lit)

\* the least and the greatest of a non-empty set of integers
MinOf(S) == CHOOSE k \in S : \A j \in S : k <= j
MaxOf(S) == CHOOSE k \in S : \A j \in S : k >= j

\* the offsets >= i where lit occurs in s
Occurrences(s, lit, i) == {k \in i..(Len(s) - Len(lit)) : HasAt(s, k, lit)}

\* s.find(lit, i): the first offset >= i where lit occurs, else -1
FirstOf(S) == IF S = {} THEN -1 ELSE MinOf(S)

Find(s, lit, i) == FirstOf(Occurrences(s, lit, i))

\* s.rfind(lit)
RFind(s, lit) == MaxOf(Occurrences(s, lit, 0) \cup {-1})

\* the first offset >= i of a character of the set cs, else Len(s)
FindAny(s, cs, i) ==
    MinOf({k \in i..(Len(s) - 1) : CharAt(s, k) \in cs} \cup {Len(s)})

Lower == {"a", "b", "c", "d", "e", "f", "g", "h", "i", "j", "k", "l", "m",
          "n", "o", "p", "q", "r", "s", "t", "u", "v", "w", "x", "y", "z"}
Upper == {"A", "B", "C", "D", "E", "F", "G", "H", "I", "J", "K", "L", "M",
          "N", "O", "P", "Q", "R", "S", "T", "U", "V", "W", "X", "Y", "Z"}
Digit == {"0", "1", "2", "3", "4", "5", "6", "7", "8", "9"}

\* the class \w of re (no LOCALE, no UNICODE flag)
WordChar == Lower \cup Upper \cup Digit \cup {"_"}

\* s.strip(cs)
LStrip(s, cs) ==
    Slice(s, MinOf({k \in 0..(Len(s) - 1) : CharAt(s, k) \notin cs} \cup {Len(s)}),
          Len(s))

RStrip(s, cs) ==
    Slice(s, 0, 1 + MaxOf({k \in 0..(Len(s) - 1) : CharAt(s, k) \notin cs} \cup {-1}))

Strip(s, cs) == RStrip(LStrip(s, cs), cs)

\* s.split(sep), a sequence of strings
RECURSIVE Split(_, _)
Split(s, sep) ==
    LET i == Find(s, sep, 0)
    IN  IF i < 0 THEN <<s>>
        ELSE <<Slice(s, 0, i)>> \o Split(Slice(s, i + Len(sep), Len(s)), sep)

\* sep.join(parts)
RECURSIVE Join(_, _)
Join(parts, sep) ==
    IF parts = <<>> THEN ""
    ELSE IF Len(parts) = 1 THEN parts[1]
    ELSE parts[1] \o sep \o Join(Tail(parts), sep)

----------------------------------------------------------------------------
(* os.path (posixpath) and urlparse *)

\* posixpath.join(a, b)
PathJoin2(a, b) ==
    IF StartsWith(b, "/") THEN b
    ELSE IF a = "" \/ EndsWith(a, "/") THEN a \o b
    ELSE a \o "/" \o b

\* posixpath.join(*parts), parts not empty
RECURSIVE PathJoinFrom(_, _)
PathJoinFrom(acc, parts) ==
    IF parts = <<>> THEN acc
    ELSE PathJoinFrom(PathJoin2(acc, Head(parts)), Tail(parts))

PathJoin(parts) == PathJoinFrom(Head(parts), Tail(parts))

\* the loop of posixpath.normpath over the components
RECURSIVE NormComps(_, _, _)
NormComps(comps, new, initial) ==
    IF comps = <<>> THEN new
    ELSE LET c == Head(comps)
             rest == Tail(comps)
         IN  IF c \in {"", "."} THEN NormComps(rest, new, initial)
             ELSE IF c # ".." \/ (initial = 0 /\ new = <<>>)
                     \/ (new # <<>> /\ new[Len(new)] = "..")
                  THEN NormComps(rest, Append(new, c), initial)
             ELSE IF new # <<>>
                  THEN NormComps(rest, SubSeq(new, 1, Len(new) - 1), initial)
             ELSE NormComps(rest, new, initial)

\* posixpath.normpath(path)
NormPath(path) ==
    IF path = "" THEN "."
    ELSE LET initial == IF ~StartsWith(path, "/") THEN 0
                        ELSE IF StartsWith(path, "//") /\ ~StartsWith(path, "///")
                             THEN 2 ELSE 1
             body == Join(NormComps(Split(path, "/"), <<>>, initial), "/")
             out == Slice("//", 0, initial) \o body
         IN  IF out = "" THEN "." ELSE out

\* posixpath.dirname(path)
DirName(path) ==
    LET i == RFind(path, "/") + 1
        head == Slice(path, 0, i)
    IN  IF head # "" /\ RStrip(head, {"/"}) # "" THEN RStrip(head, {"/"}) ELSE head

SchemeChar == Lower \cup Upper \cup Digit \cup {"+", "-", "."}

\* every character of s is in cs
AllIn(s, cs) == \A k \in 0..(Len(s) - 1) : CharAt(s, k) \in cs

\* urlparse.urlparse(url).netloc
NetLoc(url) ==
    LET i == Find(url, ":", 0)
        after == Slice(url, i + 1, Len(url))
        isScheme == i > 0 /\ AllIn(Slice(url, 0, i), SchemeChar)
                          /\ (Slice(url, 0, i) = "http"
                              \/ ~(after = "" \/ AllIn(after, Digit)))
        rest == IF isScheme THEN after ELSE url
    IN  IF StartsWith(rest, "//")
        THEN Slice(rest, 2, FindAny(rest, {"/", "?", "#"}, 2))
        ELSE ""

----------------------------------------------------------------------------
(* The constants and regular expressions of signals.py *)

LOGICAL_URL_TEMPLATE(path) == "/* logicalurl('" \o path \o "') */"

\* a template that puts the marker right after the url token
UnspacedUrlTemplate(url, path) ==
    "url('" \o url \o "')" \o LOGICAL_URL_TEMPLATE(path)

RESOURCE_URL_TEMPLATE(url, path) ==
    "url('" \o url \o "') " \o LOGICAL_URL_TEMPLATE(path)

ALREADY_PARSED_MARKER == "/* Filer urls already resolved */"

\* _COMMENT_REGEX  /\*.*?\*/  tried at offset p, where s[p:p+2] = "/*": the
\* end of the match, or -1.  No DOTALL flag: "." does not match a newline.
CommentEnd(q, nl) == IF q < 0 \/ (nl >= 0 /\ nl < q) THEN -1 ELSE q + 2

CommentEndAt(s, p) == CommentEnd(Find(s, "*/", p + 2), Find(s, "\n", p + 2))

\* re.finditer(_COMMENT_REGEX, s) from offset i: the (start, end) of each match
RECURSIVE CommentMatchesFrom(_, _)
RECURSIVE CommentMatchesAt(_, _)
RECURSIVE CommentMatchesAfter(_, _, _)

CommentMatchesAfter(s, p, e) ==
    IF e < 0 THEN CommentMatchesFrom(s, p + 1)
    ELSE <<[start |-> p, end |-> e]>> \o CommentMatchesFrom(s, e)

CommentMatchesAt(s, p) ==
    IF p < 0 THEN <<>> ELSE CommentMatchesAfter(s, p, CommentEndAt(s, p))

CommentMatchesFrom(s, i) == CommentMatchesAt(s, Find(s, "/*", i))

get_commented_regions(content) == CommentMatchesFrom(content, 0)

\* re.escape(s): a backslash before every character that is not alphanumeric
RECURSIVE ReEscape(_)
ReEscape(s) ==
    IF s = "" THEN ""
    ELSE (IF CharAt(s, 0) \in Lower \cup Upper \cup Digit
          THEN CharAt(s, 0) ELSE "\\" \o CharAt(s, 0))
         \o ReEscape(Slice(s, 1, Len(s)))

\* A pattern of literal and backslash-escaped characters tried at offset i of
\* s: the end of the match, or -1.
RECURSIVE MatchLiteralAt(_, _, _)
MatchLiteralAt(pat, s, i) ==
    IF pat = "" THEN i
    ELSE LET esc == CharAt(pat, 0) = "\\" /\ Len(pat) >= 2
             c == IF esc THEN CharAt(pat, 1) ELSE CharAt(pat, 0)
             rest == Slice(pat, IF esc THEN 2 ELSE 1, Len(pat))
         IN  IF CharAt(s, i) = c THEN MatchLiteralAt(rest, s, i + 1) ELSE -1

\* \b before the "u" of url: s[p] is a word character, so the boundary needs
\* the start of the text or a non-word character before it.
WordBoundaryAt(s, p) == p = 0 \/ CharAt(s, p - 1) \notin WordChar

\* _RESOURCE_URL_REGEX  \burl\(([^\)]*)\)  followed by the pattern tail, tried
\* at offset p: the match, or the record with end = -1.  [^\)]* stops at the
\* first ")" and cannot give any of it back.
ResourceUrlMatch(s, p, q, e) ==
    [start |-> p, end |-> e,
     group |-> IF e < 0 THEN "" ELSE Slice(s, p, e),
     group1 |-> IF e < 0 THEN "" ELSE Slice(s, p + 4, q)]

ResourceUrlMatchTo(s, p, tail, q) ==
    ResourceUrlMatch(s, p, q,
        IF HasAt(s, p, "url(") /\ WordBoundaryAt(s, p) /\ q >= 0
        THEN MatchLiteralAt(tail, s, q + 1) ELSE -1)

ResourceUrlMatchAt(s, p, tail) ==
    ResourceUrlMatchTo(s, p, tail, Find(s, ")", p + 4))

RECURSIVE ResourceUrlMatchesFrom(_, _, _)
RECURSIVE ResourceUrlMatchesAt(_, _, _)
RECURSIVE ResourceUrlMatchesAfter(_, _, _, _)

ResourceUrlMatchesAfter(s, p, tail, m) ==
    IF m.end < 0 THEN ResourceUrlMatchesFrom(s, p + 1, tail)
    ELSE <<m>> \o ResourceUrlMatchesFrom(s, m.end, tail)

ResourceUrlMatchesAt(s, p, tail) ==
    IF p < 0 THEN <<>>
    ELSE ResourceUrlMatchesAfter(s, p, tail, ResourceUrlMatchAt(s, p, tail))

\* the non-overlapping matches of the pattern in s, left to right, from i
ResourceUrlMatchesFrom(s, i, tail) ==
    ResourceUrlMatchesAt(s, Find(s, "url(", i), tail)

\* re.sub: the text between the matches copied, each match replaced by repls[k]
RECURSIVE SubFrom(_, _, _, _, _)
SubFrom(s, matches, repls, k, i) ==
    IF k > Len(matches) THEN Slice(s, i, Len(s))
    ELSE Slice(s, i, matches[k].start) \o repls[k]
         \o SubFrom(s, matches, repls, k + 1, matches[k].end)

ReSub(s, matches, repls) == SubFrom(s, matches, repls, 1, 0)

\* The expansion of a replacement template of re.sub for a match whose group 1
\* is g1: \\ is a backslash, \n a newline, \1 the group; other text is literal.
RECURSIVE ExpandTemplate(_, _)
ExpandTemplate(repl, g1) ==
    IF repl = "" THEN ""
    ELSE IF CharAt(repl, 0) = "\\" /\ Len(repl) >= 2
    THEN (IF CharAt(repl, 1) = "\\" THEN "\\"
          ELSE IF CharAt(repl, 1) = "n" THEN "\n"
          ELSE IF CharAt(repl, 1) = "1" THEN g1
          ELSE Slice(repl, 0, 2))
         \o ExpandTemplate(Slice(repl, 2, Len(repl)), g1)
    ELSE CharAt(repl, 0) \o ExpandTemplate(Slice(repl, 1, Len(repl)), g1)

----------------------------------------------------------------------------
(* The assets.  A row of db is a filer File: its fields, the bytes of its    *)
(* file and the position of the file's stream.                              *)

Assets == {"css1", "css2", "res"}

\* the order in which File.objects yields the rows
AssetOrder == <<"css1", "css2", "res">>

\* the name of filer's virtual folder of unfiled files, which File.logical_path
\* yields for a file that has no folder
UnfiledName == "unfiled files"

\* hashlib.sha1(content).hexdigest(), modelled as a tag that is one-to-one
Sha1(content) == "sha1:" \o content

\* filer_file.url: the storage's url of the file's name
Url(f) == "/media/" \o f.fname

\* a test that finds every asset filed
NeverInClipboard(f) == FALSE

_is_in_clipboard(f) == f.folder = <<>>

\* the names of the folders of filer_file.logical_path
LogicalPathNames(f) == IF f.folder = <<>> THEN <<UnfiledName>> ELSE f.folder

_construct_logical_folder_path(f) == PathJoin(LogicalPathNames(f))

_is_in_memory(f) == f.inmem

_is_css(f) ==
    IF f.name # "" THEN EndsWith(f.name, ".css")
    ELSE EndsWith(f.original_filename, ".css")

\* filer_file.file.read(): the bytes from the stream's position on
ReadFile(f) == Slice(f.content, f.pos, Len(f.content))

\* storage.save(name, fp): the storage never overwrites a file, it stores
\* under the first free name, name_1 before the extension
StorageSave(fname) ==
    LET dot == RFind(fname, ".")
    IN  IF dot <= 0 THEN fname \o "_1"
        ELSE Slice(fname, 0, dot) \o "_1" \o Slice(fname, dot, Len(fname))

\* a rewrite that leaves the stream of the stored file at its end
RewriteExhausted(f, new_content) ==
    [f EXCEPT !.content = new_content,
              !.pos = Len(new_content),
              !.fname = IF _is_in_memory(f) THEN @ ELSE StorageSave(@),
              !.readable = TRUE,
              !.sha1 = Sha1(new_content),
              !.size = Len(new_content)]

\* _rewrite_file_content(filer_file, new_content)
_rewrite_file_content(f, new_content) ==
    LET written ==
            IF _is_in_memory(f)
            THEN \* seek(0); write(new_content): the bytes beyond stay
                 [f EXCEPT !.content = new_content
                               \o Slice(f.content, Len(new_content), Len(f.content)),
                           !.pos = Len(new_content)]
            ELSE \* a new UnicodeContentFile, reset to its start, stored
                 [f EXCEPT !.content = new_content,
                           !.pos = 0,
                           !.fname = StorageSave(f.fname),
                           !.readable = TRUE]
    IN  [written EXCEPT !.sha1 = Sha1(new_content), !.size = Len(new_content)]

----------------------------------------------------------------------------
(* templatetags.filertags: the url resolver and its cache *)

get_filerfile_cache_key(path) == "filerfile:" \o path

\* the name under which an asset is filed
ResourceName(f) == IF f.name # "" THEN f.name ELSE f.original_filename

\* the logical path of an asset: its folder chain and its name
LogicalFilePath(f) == PathJoin2(_construct_logical_folder_path(f), ResourceName(f))

\* the filed assets of the database whose logical path is path
AssetsAt(rows, path) ==
    {a \in Assets : rows[a].saved /\ ~_is_in_clipboard(rows[a])
                    /\ LogicalFilePath(rows[a]) = path}

\* the url of one of the assets of the set found, "" when there is none
UrlOfAny(rows, found) ==
    IF found = {} THEN "" ELSE Url(rows[CHOOSE a \in found : TRUE])

\* the url filerfile computes when it has nothing cached
ComputeUrl(rows, path) == UrlOfAny(rows, AssetsAt(rows, path))

\* filerfile on a cache miss: the url computed is cached under the key
CacheMiss(w, path, key, url) ==
    [url |-> url,
     w |-> [w EXCEPT !.calls = Append(@, path), !.cache = (key :> url) @@ @]]

\* filerfile with the cache key of the path
FilerFileAt(w, path, key) ==
    IF key \in DOMAIN w.cache
    THEN [url |-> w.cache[key], w |-> [w EXCEPT !.calls = Append(@, path)]]
    ELSE CacheMiss(w, path, key, ComputeUrl(w.db, path))

\* filerfile(path) in the world w: the url and the world with its cache filled
filerfile(w, path) == FilerFileAt(w, path, get_filerfile_cache_key(path))

----------------------------------------------------------------------------
(* resolve_resource_urls, the pre_save hook *)

\* the test of change_urls on the commented regions
InCommentedRegion(regions, m) ==
    \E k \in 1..Len(regions) :
        \/ regions[k].start < m.start /\ m.start < regions[k].end
        \/ regions[k].start < m.end /\ m.end < regions[k].end

\* the characters str.strip removes from a reference
StripChars == {"'", "\""," "}

\* the match is returned as it is
Unchanged(st, m, kind) ==
    [st EXCEPT !.repls = Append(@, m.group), !.kinds = Append(@, kind)]

\* change_urls: the text made for a path that local_cache does not hold yet
Memoize(st, logical_file_path, r) ==
    [st EXCEPT !.w = r.w,
               !.local_cache =
                   (logical_file_path :> RESOURCE_URL_TEMPLATE(r.url, logical_file_path)) @@ @,
               !.repls = Append(@, RESOURCE_URL_TEMPLATE(r.url, logical_file_path)),
               !.kinds = Append(@, "resolved")]

\* a change_urls without local_cache
ResolveUnmemoized(st, logical_file_path) ==
    Memoize(st, logical_file_path, filerfile(st.w, logical_file_path))

\* change_urls: the replacement for the logical path, through local_cache
ResolveLogical(st, logical_file_path) ==
    IF logical_file_path \in DOMAIN st.local_cache
    THEN [st EXCEPT !.repls = Append(@, st.local_cache[logical_file_path]),
                    !.kinds = Append(@, "resolved")]
    ELSE Memoize(st, logical_file_path, filerfile(st.w, logical_file_path))

\* a change_urls that does not parse the reference
ChangeAnyReference(m, logical_folder_path, st, url) ==
    ResolveLogical(st, NormPath(PathJoin2(logical_folder_path, url)))

\* change_urls: the stripped reference is absolute or is resolved
ChangeReference(m, logical_folder_path, st, url) ==
    IF NetLoc(url) # "" THEN Unchanged(st, m, "absolute")
    ELSE ResolveLogical(st, NormPath(PathJoin2(logical_folder_path, url)))

\* change_urls(match): st carries the world, local_cache and the replacements
\* made so far
change_urls(m, regions, logical_folder_path, st) ==
    IF InCommentedRegion(regions, m) THEN Unchanged(st, m, "comment")
    ELSE ChangeReference(m, logical_folder_path, st, Strip(m.group1, StripChars))

\* re.sub calling change_urls on each match in turn
RECURSIVE ChangeAll(_, _, _, _, _)
ChangeAll(matches, k, regions, logical_folder_path, st) ==
    IF k > Len(matches) THEN st
    ELSE ChangeAll(matches, k + 1, regions, logical_folder_path,
                   change_urls(matches[k], regions, logical_folder_path, st))

NoPass == [outcome |-> "none", content |-> "", matches |-> <<>>,
           repls |-> <<>>, kinds |-> <<>>, new_content |-> "", calls |-> <<>>,
           folder_path |-> ""]

\* an early return of resolve_resource_urls
Return(w, f, outcome, content) ==
    [w |-> w, f |-> f, err |-> FALSE,
     pass |-> [NoPass EXCEPT !.outcome = outcome, !.content = content]]

\* the last lines of resolve_resource_urls: the file rewritten
Rewrite(w, f, content, matches, st, new_content) ==
    [w |-> [st.w EXCEPT !.calls = w.calls \o st.w.calls],
     f |-> _rewrite_file_content(f, new_content),
     err |-> FALSE,
     pass |-> [outcome |-> "rewritten", content |-> content,
               matches |-> matches, repls |-> st.repls, kinds |-> st.kinds,
               new_content |-> new_content, calls |-> st.w.calls,
               folder_path |-> _construct_logical_folder_path(f)]]

\* new_content: the marker, a newline and the content with its urls changed
NewContent(w, f, content, matches, st) ==
    Rewrite(w, f, content, matches, st,
            ALREADY_PARSED_MARKER \o "\n" \o ReSub(content, matches, st.repls))

\* re.sub(_RESOURCE_URL_REGEX, change_urls, content) over the matches
ChangeMatches(w, f, content, matches) ==
    NewContent(w, f, content, matches,
               ChangeAll(matches, 1, get_commented_regions(content),
                         _construct_logical_folder_path(f),
                         [w |-> [w EXCEPT !.calls = <<>>],
                          local_cache |-> <<>>, repls |-> <<>>, kinds |-> <<>>]))

\* a pass that does not look for the marker
ResolveMarked(w, f, content) ==
    ChangeMatches(w, f, content, ResourceUrlMatchesFrom(content, 0, ""))

\* resolve_resource_urls once the content is read
ReadContent(w, f, content) ==
    IF StartsWith(content, ALREADY_PARSED_MARKER)
    THEN Return(w, f, "already resolved", content)
    ELSE ChangeMatches(w, f, content, ResourceUrlMatchesFrom(content, 0, ""))

\* resolve_resource_urls(instance) in the world w: the instance and the world
\* after it, and what the pass did
resolve_resource_urls(w, f) ==
    IF ~_is_css(f) THEN Return(w, f, "not css", "")
    ELSE IF _is_in_clipboard(f) THEN Return(w, f, "clipboard", "")
    ELSE IF ~f.readable
    THEN \* file.read() raises IOError, which nothing catches
         [w |-> w, f |-> f, err |-> TRUE,
          pass |-> [NoPass EXCEPT !.outcome = "unreadable"]]
    ELSE ReadContent(w, [f EXCEPT !.pos = Len(f.content)], ReadFile(f))

----------------------------------------------------------------------------
(* update_referencing_css_files and clear_urls_cache, the post_save hooks,   *)
(* and Model.save around the hooks                                          *)

\* the deepest nesting of save() inside save() that the model follows
MaxDepth == 3

\* signals.pre_save.connect(resolve_resource_urls, sender=File)
PreSaveConnected(f) == f.cls = "File"

\* cache.delete(key)
CacheDelete(c, key) == [k \in DOMAIN c \ {key} |-> c[k]]

\* clear_urls_cache(instance)
clear_urls_cache(w, f) ==
    [w EXCEPT !.cache = CacheDelete(@, get_filerfile_cache_key(
        PathJoin2(_construct_logical_folder_path(f), f.original_filename)))]

\* File.objects.filter(original_filename__endswith=".css")
RECURSIVE CssFilesFrom(_, _)
CssFilesFrom(rows, k) ==
    IF k > Len(AssetOrder) THEN <<>>
    ELSE (IF rows[AssetOrder[k]].saved
             /\ EndsWith(rows[AssetOrder[k]].original_filename, ".css")
          THEN <<AssetOrder[k]>> ELSE <<>>) \o CssFilesFrom(rows, k + 1)

\* a re.sub whose replacement is the text matched
ExpansionsKept(matches, repl) == [k \in 1..Len(matches) |-> matches[k].group]

\* re.sub(url_updating_regex, repl, content): the replacement of each match
Expansions(matches, repl) ==
    [k \in 1..Len(matches) |-> ExpandTemplate(repl, matches[k].group1)]

\* what the scan did with one css file
Scanned(w, c, outcome, content, new_content, it) ==
    [w EXCEPT !.scan = Append(@, [css |-> c, outcome |-> outcome,
                                  content |-> content,
                                  new_content |-> new_content,
                                  path |-> it.logical_file_path,
                                  url |-> it.url])]

RECURSIVE SaveInstance(_, _, _, _)
RECURSIVE UpdateCssFiles(_, _, _)
RECURSIVE UpdateCss(_, _, _, _)
RECURSIVE Replaced(_, _, _, _, _)
RECURSIVE AfterCssSave(_, _, _)
RECURSIVE update_referencing_css_files(_, _, _)
RECURSIVE PostSave(_, _, _)
RECURSIVE AfterUpdate(_, _, _, _)

\* a loop that lets the IOError of css.file.read() through
UpdateCssFilesUncaught(w, it, k) ==
    IF k > Len(it.css_files) THEN [w |-> w, err |-> FALSE]
    ELSE IF ~it.rows[it.css_files[k]].readable
    THEN [w |-> Scanned(w, it.css_files[k], "unreadable", "", "", it), err |-> TRUE]
    ELSE UpdateCss(w, it, k, ReadFile([it.rows[it.css_files[k]] EXCEPT !.pos = 0]))

\* the loop of update_referencing_css_files from css_files[k] on; it holds the
\* rows the query loaded, the resource's logical path and url, and the depth
UpdateCssFiles(w, it, k) ==
    IF k > Len(it.css_files) THEN [w |-> w, err |-> FALSE]
    ELSE IF ~it.rows[it.css_files[k]].readable
    THEN \* css.file.read() raises IOError: continue
         UpdateCssFiles(Scanned(w, it.css_files[k], "unreadable", "", "", it),
                        it, k + 1)
    ELSE UpdateCss(w, it, k, ReadFile([it.rows[it.css_files[k]] EXCEPT !.pos = 0]))

\* the body of the loop for the content read: re.sub with the updating regex
UpdateCss(w, it, k, content) ==
    Replaced(w, it, k, content,
        ReSub(content,
              ResourceUrlMatchesFrom(content, 0,
                  " " \o ReEscape(LOGICAL_URL_TEMPLATE(it.logical_file_path))),
              Expansions(
                  ResourceUrlMatchesFrom(content, 0,
                      " " \o ReEscape(LOGICAL_URL_TEMPLATE(it.logical_file_path))),
                  "url('" \o it.url \o "') "
                      \o LOGICAL_URL_TEMPLATE(it.logical_file_path))))

\* the else branch of the loop: a changed css is rewritten and saved
Replaced(w, it, k, content, new_content) ==
    IF content = new_content
    THEN UpdateCssFiles(
            Scanned(w, it.css_files[k], "unchanged", content, new_content, it),
            it, k + 1)
    ELSE AfterCssSave(it, k,
            SaveInstance(
                Scanned(w, it.css_files[k], "updated", content, new_content, it),
                it.css_files[k],
                _rewrite_file_content(
                    [it.rows[it.css_files[k]] EXCEPT !.pos = Len(content)],
                    new_content),
                it.depth + 1))

\* css.save() has returned or raised
AfterCssSave(it, k, saved) ==
    IF saved.err THEN saved ELSE UpdateCssFiles(saved.w, it, k + 1)

\* update_referencing_css_files(instance)
update_referencing_css_files(w, f, depth) ==
    IF _is_css(f) THEN [w |-> w, err |-> FALSE]
    ELSE IF _is_in_clipboard(f) THEN [w |-> w, err |-> FALSE]
    ELSE UpdateCssFiles(w,
            [rows |-> w.db, css_files |-> CssFilesFrom(w.db, 1),
             logical_file_path |-> LogicalFilePath(f), url |-> Url(f),
             depth |-> depth],
            1)

\* the row a later query loads: the file is in the storage, its stream unread
StoredRow(f) == [f EXCEPT !.saved = TRUE, !.inmem = FALSE, !.pos = 0]

\* the forward pass of asset a is put in the log of the operation
Passed(w, a, depth, pass) ==
    [w EXCEPT !.passes = Append(@, [asset |-> a, depth |-> depth, pass |-> pass])]

\* a receiver called for the save of asset a, or the write of its row, is put
\* in the trace of the operation
Event(w, ev, a, depth) ==
    [w EXCEPT !.events = Append(@, [ev |-> ev, asset |-> a, depth |-> depth])]

\* the row of asset a is written
RowWritten(w, a, depth, f) ==
    Event([w EXCEPT !.db[a] = StoredRow(f)], "saved", a, depth)

\* a post_save that calls clear_urls_cache before update_referencing_css_files
PostSaveCleared(a, depth, pre) ==
    IF pre.err THEN [w |-> Passed(pre.w, a, depth, pre.pass), err |-> TRUE]
    ELSE update_referencing_css_files(
            Event(clear_urls_cache(
                      Event(RowWritten(Passed(pre.w, a, depth, pre.pass),
                                       a, depth, pre.f),
                            "clear_urls_cache", a, depth),
                      pre.f),
                  "update_referencing_css_files", a, depth),
            pre.f, depth)

\* post_save: clear_urls_cache after update_referencing_css_files
AfterUpdate(a, depth, f, post) ==
    IF post.err THEN post
    ELSE [w |-> clear_urls_cache(Event(post.w, "clear_urls_cache", a, depth), f),
          err |-> FALSE]

\* the row is written, then post_save is sent: the receivers run in the order
\* they were connected
PostSave(a, depth, pre) ==
    IF pre.err THEN [w |-> Passed(pre.w, a, depth, pre.pass), err |-> TRUE]
    ELSE AfterUpdate(a, depth, pre.f,
            update_referencing_css_files(
                Event(RowWritten(Passed(pre.w, a, depth, pre.pass), a, depth, pre.f),
                      "update_referencing_css_files", a, depth),
                pre.f, depth))

\* instance.save() of asset a: pre_save, the row written, post_save
SaveInstance(w, a, f, depth) ==
    IF depth > MaxDepth THEN [w |-> w, err |-> TRUE]
    ELSE PostSave(a, depth,
            IF PreSaveConnected(f)
            THEN resolve_resource_urls(Event(w, "resolve_resource_urls", a, depth), f)
            ELSE Return(w, f, "not connected", ""))

----------------------------------------------------------------------------
(* views.py: css_preprocessor *)

Quotes == {"'", "\""}

\* the largest k in g+1..e with a quote at k and ")" at k+1, else -1: where
\* the greedy ([^']+) gives back to let ['\"]\) match
RECURSIVE ViewClose(_, _, _)
ViewClose(s, g, k) ==
    IF k <= g THEN -1
    ELSE IF CharAt(s, k) \in Quotes /\ CharAt(s, k + 1) = ")" THEN k
    ELSE ViewClose(s, g, k - 1)

\* the match of the view's pattern that starts at p and closes at k
ViewMatch(s, p, k) ==
    [start |-> p, end |-> IF k < 0 THEN -1 ELSE k + 2,
     group |-> IF k < 0 THEN "" ELSE Slice(s, p, k + 2),
     group1 |-> IF k < 0 THEN "" ELSE Slice(s, p + 5, k)]

\* the pattern  url\(['\"]([^']+)['\"]\)  tried at offset p
ViewMatchAt(s, p) ==
    ViewMatch(s, p,
        IF HasAt(s, p, "url(") /\ CharAt(s, p + 4) \in Quotes
        THEN ViewClose(s, p + 5, FindAny(s, {"'"}, p + 5)) ELSE -1)

RECURSIVE ViewMatchesFrom(_, _)
RECURSIVE ViewMatchesAt(_, _)
RECURSIVE ViewMatchesAfter(_, _, _)

ViewMatchesAfter(s, p, m) ==
    IF m.end < 0 THEN ViewMatchesFrom(s, p + 1)
    ELSE <<m>> \o ViewMatchesFrom(s, m.end)

ViewMatchesAt(s, p) ==
    IF p < 0 THEN <<>> ELSE ViewMatchesAfter(s, p, ViewMatchAt(s, p))

\* the non-overlapping matches of the view's pattern in s from offset i
ViewMatchesFrom(s, i) == ViewMatchesAt(s, Find(s, "url(", i))

\* filerthumbnail(path): the asset filed at path, or "" for None
AnyOf(found) == IF found = {} THEN "" ELSE CHOOSE a \in found : TRUE

filerthumbnail(rows, path) == AnyOf(AssetsAt(rows, path))

\* change_urls of the view: the url resolved is put in the replacement
ViewChanged(st, r) ==
    [w |-> r.w, repls |-> Append(st.repls, "url('" \o r.url \o "')")]

\* change_urls of the view on each match in turn
RECURSIVE ViewChangeAll(_, _, _, _)
ViewChangeAll(matches, k, dirname, st) ==
    IF k > Len(matches) THEN st
    ELSE ViewChangeAll(matches, k + 1, dirname,
            ViewChanged(st, filerfile(st.w, PathJoin2(dirname, matches[k].group1))))

Response(w, path, status, body, found) ==
    [w |-> w, status |-> status, body |-> body, found |-> found, path |-> path]

\* HttpResponse(re.sub(...)) once the replacements are made
Rendered(path, content, matches, st) ==
    Response(st.w, path, "200", ReSub(content, matches, st.repls), TRUE)

Render(w, path, content, matches) ==
    Rendered(path, content, matches,
             ViewChangeAll(matches, 1, DirName(path), [w |-> w, repls |-> <<>>]))

\* css_preprocessor once filerthumbnail has returned f
Preprocess(w, path, f) ==
    IF f = "" /\ EndsWith(path, ".css")
    THEN Response(w, path, "404", "No such file.", FALSE)
    ELSE IF f = ""
    THEN \* None has no read(): AttributeError
         Response(w, path, "exception", "", FALSE)
    ELSE IF ~w.db[f].readable
    THEN Response(w, path, "exception", "", TRUE)
    ELSE Render(w, path, ReadFile(w.db[f]), ViewMatchesFrom(ReadFile(w.db[f]), 0))

\* css_preprocessor(request, path) in the world w
css_preprocessor(w, path) == Preprocess(w, path, filerthumbnail(w.db, path))

----------------------------------------------------------------------------
(* The library and the operations on it *)

\* the number of operations of a behaviour
MaxSteps == 3

\* an asset as it is uploaded: not saved yet, its stream at the start
Upload(name, original_filename, fname, content, inmem, cls) ==
    [name |-> name, original_filename |-> original_filename, folder |-> <<>>,
     fname |-> fname, content |-> content, readable |-> TRUE, saved |-> FALSE,
     inmem |-> inmem, sha1 |-> Sha1(content), size |-> Len(content),
     pos |-> 0, cls |-> cls]

\* the folder in which each asset is filed when it is not in the clipboard
HomeFolder(a) == IF a = "res" THEN <<"a", "img">> ELSE <<"a", "b">>

\* filer moves the file between its public and its private directory
Relocate(fname) ==
    IF StartsWith(fname, "filer_public/")
    THEN "filer_private/" \o Slice(fname, Len("filer_public/"), Len(fname))
    ELSE "filer_public/" \o Slice(fname, Len("filer_private/"), Len(fname))

EmptyCache == [k \in {} |-> ""]

World(rows, c) ==
    [db |-> rows, cache |-> c, calls |-> <<>>, scan |-> <<>>, passes |-> <<>>,
     events |-> <<>>]

NoLog == [op |-> "none", asset |-> "", err |-> FALSE, before |-> <<>>,
          cache_before |-> EmptyCache, instance |-> <<>>,
          calls |-> <<>>, scan |-> <<>>, passes |-> <<>>, events |-> <<>>]

NoResp == [status |-> "none", body |-> "", found |-> FALSE, path |-> ""]

\* the css texts authors upload
CssInputs == {
    "a { background: url('../img/x.png') }",
    "a { /* url('x.png') */ } b { background: url('x.png') }",
    "a { background: url('http://cdn.example.com/x.png') } b { c: url( //h/y.png ) }",
    "/*\n a { b: url('../img/x.png') }\n*/\nc { d: url(../img/x.png) }",
    "a { b: url(/* c */x.png) }",
    "a{b:url(../img/x.png)}c{d:url( \"../img/x.png\" )}e{f:url(../img/./x.png)}",
    "a { b: url(p /* q) r */ } /* s url(t */ u) v url(w)",
    "a { b: url(                                                                      ../img/x.png) }",
    "/* see http://h/ */ a { b: url('http://h/x.png') /* url(http://h/z) */ }",
    "p { color: red }",
    "" }

\* the css texts of the library's behaviours
LibraryInputs == {
    "a { background: url('../img/x.png') }",
    "a { b: url(../img/x.png) } c { d: url('../img/y.png') }" }

CssNames == {
    [name |-> "", original_filename |-> "s.css"],
    [name |-> "main", original_filename |-> "s.css"],
    [name |-> "t.css", original_filename |-> "t.txt"] }

ResNames == {
    [name |-> "", original_filename |-> "x.png"],
    [name |-> "x.png", original_filename |-> "IMG1.png"] }

\* the uploads of a scenario
Uploads(content, cssname, inmem, resname, cls) ==
    [a \in Assets |->
        IF a = "css1"
        THEN Upload(cssname.name, cssname.original_filename,
                    "filer_public/s.css", content, inmem, "File")
        ELSE IF a = "css2"
        THEN Upload("", "b.css", "filer_public/b.css",
                    "b { background: url(../img/x.png) }", TRUE, "File")
        ELSE Upload(resname.name, resname.original_filename,
                    "filer_public/x.png", "PNG", TRUE, cls)]

BaseCssName == [name |-> "", original_filename |-> "s.css"]
BaseResName == [name |-> "", original_filename |-> "x.png"]

\* the scenarios of the library: one dimension varied at a time
Scenarios ==
    {Uploads(c, BaseCssName, m, BaseResName, "Image") :
        c \in LibraryInputs, m \in BOOLEAN}
    \cup {Uploads("a { background: url('../img/x.png') }", n, TRUE,
                  BaseResName, "Image") : n \in CssNames}
    \cup {Uploads("a { background: url('../img/x.png') }", BaseCssName, TRUE,
                  n, k) : n \in ResNames, k \in {"File", "Image"}}

\* the world after asset a of the uploads is filed in its folder and saved
Filed(w, a) ==
    SaveInstance(w, a, [w.db[a] EXCEPT !.folder = HomeFolder(a)], 0).w

\* the library is that of the world w
Starts(w) == db = w.db /\ cache = w.cache

\* the library starts with css2 filed and saved, css1 and res uploaded
Init ==
    /\ \E sc \in Scenarios : Starts(Filed(World(sc, EmptyCache), "css2"))
    /\ log = NoLog
    /\ resp = NoResp
    /\ steps = 0

\* the instance of asset a that a request loads and changes before it saves
Instance(a, folder, relocate) ==
    [db[a] EXCEPT !.folder = folder,
                  !.fname = IF relocate THEN Relocate(@) ELSE @,
                  !.pos = 0]

\* the library after instance f of asset a was saved with result r
Saved(a, f, r) ==
    /\ db' = r.w.db
    /\ cache' = r.w.cache
    /\ log' = [op |-> "save", asset |-> a, err |-> r.err, before |-> db,
               cache_before |-> cache, instance |-> f,
               calls |-> r.w.calls, scan |-> r.w.scan, passes |-> r.w.passes,
               events |-> r.w.events]

\* asset a is put in a folder (or the clipboard), its file moved or not, and
\* saved: instance.save()
Save(a, folder, relocate) ==
    /\ steps < MaxSteps
    /\ relocate => db[a].saved
    /\ Saved(a, Instance(a, folder, relocate),
             SaveInstance(World(db, cache), a, Instance(a, folder, relocate), 0))
    /\ resp' = resp
    /\ steps' = steps + 1

SaveCss == \E folder \in {<<>>, HomeFolder("css1")} : Save("css1", folder, FALSE)

SaveResource ==
    \E folder \in {<<>>, HomeFolder("res")}, relocate \in BOOLEAN :
        Save("res", folder, relocate)

\* the paths templates resolve with the filerfile tag
TemplatePaths == {"a/img/x.png"}

\* the library after filerfile returned r
Resolved(r) ==
    /\ cache' = r.w.cache
    /\ log' = [NoLog EXCEPT !.op = "resolve", !.before = db,
                            !.cache_before = cache, !.calls = r.w.calls]

\* a template renders {% filerfile path %}
Resolve(path) ==
    /\ steps < MaxSteps
    /\ Resolved(filerfile(World(db, cache), path))
    /\ UNCHANGED <<db, resp>>
    /\ steps' = steps + 1

\* the file of a saved css asset disappears from the storage
LoseFile(a) ==
    /\ steps < MaxSteps
    /\ db[a].saved /\ db[a].readable
    /\ db' = [db EXCEPT ![a].readable = FALSE]
    /\ log' = [NoLog EXCEPT !.op = "lose", !.asset = a, !.before = db,
                            !.cache_before = cache]
    /\ UNCHANGED <<cache, resp>>
    /\ steps' = steps + 1

Next ==
    \/ SaveCss
    \/ SaveResource
    \/ \E path \in TemplatePaths : Resolve(path)
    \/ \E a \in {"css1", "css2"} : LoseFile(a)

Spec == Init /\ [][Next]_vars

----------------------------------------------------------------------------
(* The forward pass alone, over the css texts *)

\* the world with the resource filed or still uploaded
WithResource(w, withres) == IF withres THEN Filed(w, "res") ELSE w

InitForward ==
    /\ \E c \in CssInputs, m \in BOOLEAN, withres \in BOOLEAN :
          Starts(WithResource(
              World(Uploads(c, BaseCssName, m, BaseResName, "Image"), EmptyCache),
              withres))
    /\ log = NoLog
    /\ resp = NoResp
    /\ steps = 0

NextForward == SaveCss

SpecForward == InitForward /\ [][NextForward]_vars

----------------------------------------------------------------------------
(* The view, over libraries with the assets filed *)

ViewPaths == {"a/b/s.css", "a/b/b.css", "a/b/none.css", "none.css",
              "a/img/x.png", "a/img/none.png", "a/b/notes.txt", "none"}

\* the library after the view returned r
Responded(r) ==
    /\ cache' = r.w.cache
    /\ resp' = [status |-> r.status, body |-> r.body,
                found |-> r.found, path |-> r.path]
    /\ log' = [NoLog EXCEPT !.op = "view", !.before = db,
                            !.cache_before = cache, !.calls = r.w.calls]

\* a request for path reaches css_preprocessor
View(path) ==
    /\ steps < MaxSteps
    /\ Responded(css_preprocessor(World(db, cache), path))
    /\ UNCHANGED db
    /\ steps' = steps + 1

InitView ==
    /\ \E c \in CssInputs, withres \in BOOLEAN :
          Starts(Filed(WithResource(
              World(Uploads(c, BaseCssName, FALSE, BaseResName, "Image"), EmptyCache),
              withres), "css1"))
    /\ log = NoLog
    /\ resp = NoResp
    /\ steps = 0

NextView == \E path \in ViewPaths : View(path)

SpecView == InitView /\ [][NextView]_vars

----------------------------------------------------------------------------
(* Properties.  The last operation is read from log: the rows and the cache  *)
(* before it, the instance saved, the forward passes run, the css files      *)
(* scanned and the calls of filerfile.                                       *)

\* the last operation saved a filed asset that is not css, without an error
SavedResource ==
    /\ log.op = "save" /\ ~log.err
    /\ ~_is_css(log.instance) /\ ~_is_in_clipboard(log.instance)

\* the last operation saved a filed css asset through the pre_save hook
SavedCss ==
    /\ log.op = "save" /\ ~log.err
    /\ _is_css(log.instance) /\ ~_is_in_clipboard(log.instance)
    /\ PreSaveConnected(log.instance)

\* the css assets stored and readable before the last operation: the rows whose
\* filename ends in .css
StoredCss(c) ==
    /\ log.before[c].saved /\ log.before[c].readable
    /\ EndsWith(log.before[c].original_filename, ".css")

\* the text before a marker with the url(...) token that ends it replaced
FixPiece(piece, url) ==
    LET cands == {i \in 0..(Len(piece) - 5) :
                     /\ HasAt(piece, i, "url(") /\ WordBoundaryAt(piece, i)
                     /\ Find(piece, ")", i + 4) = Len(piece) - 1}
    IN  IF cands = {} THEN piece
        ELSE Slice(piece, 0, MinOf(cands)) \o "url('" \o url \o "')"

\* the pieces of a text cut at a marker, each but the last ending in a pair
FixPieces(pieces, url) ==
    [k \in 1..Len(pieces) |->
        IF k < Len(pieces) THEN FixPiece(pieces[k], url) ELSE pieces[k]]

\* content with every pair  url(...) /* logicalurl('path') */  given the url,
\* the rest of the text kept
PairReplace(content, path, url) ==
    Join(FixPieces(Split(content, " " \o LOGICAL_URL_TEMPLATE(path)), url),
         " " \o LOGICAL_URL_TEMPLATE(path))

C2_Idempotent ==
    (SavedCss /\ log.before[log.asset].saved /\ log.before[log.asset].folder # <<>>)
        => /\ db[log.asset].content = log.before[log.asset].content
           /\ db[log.asset].sha1 = log.before[log.asset].sha1
           /\ db[log.asset].size = log.before[log.asset].size
           /\ db[log.asset] = log.before[log.asset]

\* the second save of a css whose first save resolved a reference
C2_Witness ==
    /\ SavedCss /\ log.before[log.asset].saved /\ log.before[log.asset].folder # <<>>
    /\ log.passes[1].pass.outcome = "already resolved"
    /\ StartsWith(db[log.asset].content, ALREADY_PARSED_MARKER)
    /\ Find(db[log.asset].content, "/* logicalurl('a/img/x.png') */", 0) >= 0

\* the comments of a css text: each /* is closed by the first */ after it
RECURSIVE CssCommentsFrom(_, _)
CssCommentsFrom(s, i) ==
    LET p == Find(s, "/*", i)
        q == Find(s, "*/", p + 2)
    IN  IF p < 0 \/ q < 0 THEN <<>>
        ELSE <<[start |-> p, end |-> q + 2]>> \o CssCommentsFrom(s, q + 2)

\* the span of match m and the region r have a character in common
Overlaps(r, m) == r.start < m.end /\ m.start < r.end

\* match m overlaps a comment of the text
InComment(content, m) ==
    \E k \in 1..Len(CssCommentsFrom(content, 0)) :
        Overlaps(CssCommentsFrom(content, 0)[k], m)

\* the forward passes of the last operation that rewrote a file
Rewrites == {k \in 1..Len(log.passes) : log.passes[k].pass.outcome = "rewritten"}

\* by how much the replacements of the first k matches lengthen the text
RECURSIVE Growth(_, _)
Growth(pass, k) ==
    IF k = 0 THEN 0
    ELSE Growth(pass, k - 1) + Len(pass.repls[k]) - Len(pass.matches[k].group)

\* where the text put for match k starts in new_content
OutStart(pass, k) ==
    Len(ALREADY_PARSED_MARKER) + 1 + pass.matches[k].start + Growth(pass, k - 1)

\* match k of the pass is in new_content as it is in the content
Verbatim(pass, k) ==
    /\ pass.repls[k] = pass.matches[k].group
    /\ HasAt(pass.new_content, OutStart(pass, k), pass.matches[k].group)

\* C3: in a forward pass every url(...) occurrence whose span overlaps a comment
\* of the content, inside it, across one of its ends or around it, is copied as
\* it is.
C3_CommentSafety ==
    \A p \in Rewrites :
        \A k \in 1..Len(log.passes[p].pass.matches) :
            InComment(log.passes[p].pass.content, log.passes[p].pass.matches[k])
                => Verbatim(log.passes[p].pass, k)

\* the reference of match m, stripped, parses with a network location
Absolute(m) == NetLoc(Strip(m.group1, {"'", "\"", " "})) # ""

\* the logical path that the reference of match m names from the folder
Target(m, folder_path) ==
    NormPath(PathJoin2(folder_path, Strip(m.group1, {"'", "\"", " "})))

\* C4: in a forward pass every url(...) occurrence whose stripped reference has
\* a network location is in the output as it was, in a comment or not, and
\* filerfile is called only for the targets of the other occurrences.
C4_AbsolutePassthrough ==
    \A p \in Rewrites :
        /\ \A k \in 1..Len(log.passes[p].pass.matches) :
              Absolute(log.passes[p].pass.matches[k])
                  => Verbatim(log.passes[p].pass, k)
        /\ \A c \in 1..Len(log.passes[p].pass.calls) :
              \E k \in 1..Len(log.passes[p].pass.matches) :
                  /\ ~Absolute(log.passes[p].pass.matches[k])
                  /\ log.passes[p].pass.calls[c] =
                        Target(log.passes[p].pass.matches[k],
                               log.passes[p].pass.folder_path)

\* a pass over a content with an absolute reference outside every comment, and
\* a file stored with it
C4_Witness ==
    /\ SavedCss
    /\ \E p \in Rewrites :
          \E k \in 1..Len(log.passes[p].pass.matches) :
              /\ Absolute(log.passes[p].pass.matches[k])
              /\ ~InComment(log.passes[p].pass.content, log.passes[p].pass.matches[k])
              /\ Find(db[log.asset].content, log.passes[p].pass.matches[k].group, 0) >= 0

\* C5: the save of a css asset that has no folder leaves its content, hash and
\* size as they were and calls filerfile for nothing; the save of an asset
\* that is not css and has no folder scans no css file: none is read, rewritten
\* or saved.
C5_ClipboardExemption ==
    (log.op = "save" /\ ~log.err /\ log.instance.folder = <<>>)
        => /\ _is_css(log.instance)
                => /\ db[log.asset].content = log.instance.content
                   /\ db[log.asset].sha1 = log.instance.sha1
                   /\ db[log.asset].size = log.instance.size
                   /\ log.calls = <<>>
           /\ ~_is_css(log.instance)
                => /\ log.scan = <<>>
                   /\ Len(log.passes) = 1
                   /\ \A c \in Assets \ {log.asset} : db[c] = log.before[c]

\* a resource without a folder is saved while a stored css refers to the path
\* it had in its folder
C5_Witness ==
    /\ log.op = "save" /\ ~log.err /\ log.instance.folder = <<>>
    /\ ~_is_css(log.instance)
    /\ log.before[log.asset].saved /\ log.before[log.asset].folder # <<>>
    /\ \E c \in Assets :
          /\ db[c].saved
          /\ Find(db[c].content, "/* logicalurl('a/img/x.png') */", 0) >= 0

\* C6: when the save of an asset has completed, the cache holds no url for the
\* logical path of the asset, the path of its folders and its name that the
\* forward pass resolves and the reverse pass matches.
C6_CacheInvalidation ==
    (log.op = "save" /\ ~log.err)
        => get_filerfile_cache_key(LogicalFilePath(db[log.asset]))
               \notin DOMAIN cache

\* the matches of a pass that change_urls resolved
ResolvedMatches(pass) == {k \in 1..Len(pass.matches) : pass.kinds[k] = "resolved"}

\* C7: in a forward pass filerfile is called once for each logical target that
\* an occurrence resolves to, however many occurrences name it, and the
\* occurrences of one target are replaced by the same text.
C7_Memoization ==
    \A p \in Rewrites :
        /\ \A i, j \in 1..Len(log.passes[p].pass.calls) :
              log.passes[p].pass.calls[i] = log.passes[p].pass.calls[j] => i = j
        /\ {log.passes[p].pass.calls[i] : i \in 1..Len(log.passes[p].pass.calls)}
              = {Target(log.passes[p].pass.matches[k], log.passes[p].pass.folder_path) :
                    k \in ResolvedMatches(log.passes[p].pass)}
        /\ \A j, k \in ResolvedMatches(log.passes[p].pass) :
              /\ HasAt(log.passes[p].pass.new_content,
                       OutStart(log.passes[p].pass, k), log.passes[p].pass.repls[k])
              /\ Target(log.passes[p].pass.matches[j], log.passes[p].pass.folder_path)
                    = Target(log.passes[p].pass.matches[k], log.passes[p].pass.folder_path)
                 => log.passes[p].pass.repls[j] = log.passes[p].pass.repls[k]

\* three occurrences written differently name one target: one call
C7_Witness ==
    \E p \in Rewrites :
        /\ Len(log.passes[p].pass.calls) = 1
        /\ Cardinality(ResolvedMatches(log.passes[p].pass)) = 3
        /\ Cardinality({log.passes[p].pass.matches[k].group :
                           k \in ResolvedMatches(log.passes[p].pass)}) = 3

\* the rows of css files that cannot be read before the last operation
LostCss(c) ==
    /\ log.before[c].saved /\ ~log.before[c].readable
    /\ EndsWith(log.before[c].original_filename, ".css")

\* C8: a filed asset that is not css is saved while the file of a css row is
\* missing: the save ends without an error, the row of the missing file is
\* left as it was and is not saved, and every css file that can be read gets
\* the content it would get without the missing one.
C8_UnreadableSkipped ==
    (/\ log.op = "save" /\ ~_is_css(log.instance) /\ log.instance.folder # <<>>
     /\ \E b \in Assets : LostCss(b))
        => /\ ~log.err
           /\ \A b \in Assets \ {log.asset} :
                 LostCss(b) => /\ db[b] = log.before[b]
                               /\ \A p \in 1..Len(log.passes) : log.passes[p].asset # b
           /\ \A c \in Assets :
                 StoredCss(c) =>
                     db[c].content = PairReplace(log.before[c].content,
                                                 LogicalFilePath(log.instance),
                                                 Url(log.instance))

\* the first css of the scan could not be read and the second was updated
C8_Witness ==
    /\ log.op = "save" /\ ~log.err /\ ~_is_css(log.instance)
    /\ Len(log.scan) = 2
    /\ log.scan[1].outcome = "unreadable" /\ LostCss(log.scan[1].css)
    /\ log.scan[2].outcome = "updated"
    /\ db[log.scan[2].css].content # log.before[log.scan[2].css].content

\* C9: the view answers 404 for a path that resolves to nothing and ends in
\* .css, returns a response without an exception for a path that resolves to
\* nothing and does not end in .css, and for a path that resolves to a file
\* returns a response and stores nothing.
C9_ViewOutcome ==
    log.op = "view"
        => /\ (~resp.found /\ EndsWith(resp.path, ".css")) => resp.status = "404"
           /\ (~resp.found /\ ~EndsWith(resp.path, ".css")) => resp.status = "200"
           /\ resp.found => (resp.status = "200" /\ db = log.before)

\* match m starts or ends inside a comment of the text
InsideComment(content, m) ==
    \E k \in 1..Len(CssCommentsFrom(content, 0)) :
        \/ /\ CssCommentsFrom(content, 0)[k].start < m.start
           /\ m.start < CssCommentsFrom(content, 0)[k].end
        \/ /\ CssCommentsFrom(content, 0)[k].start < m.end
           /\ m.end < CssCommentsFrom(content, 0)[k].end

\* the url the resolver yields for a path with the rows and the cache that the
\* last operation found
ActualUrl(path) ==
    IF get_filerfile_cache_key(path) \in DOMAIN log.cache_before
    THEN log.cache_before[get_filerfile_cache_key(path)]
    ELSE ComputeUrl(log.before, path)

\* the text that takes the place of occurrence m of a css in the folder
ExpectedText(content, m, folder_path) ==
    IF InsideComment(content, m) \/ Absolute(m) THEN m.group
    ELSE "url('" \o ActualUrl(Target(m, folder_path)) \o "') /* logicalurl('"
         \o Target(m, folder_path) \o "') */"

ExpectedTexts(content, matches, folder_path) ==
    [k \in 1..Len(matches) |-> ExpectedText(content, matches[k], folder_path)]

\* the marker line and the content with its occurrences replaced
ExpectedContent(content, folder_path) ==
    "/* Filer urls already resolved */" \o "\n"
    \o ReSub(content, ResourceUrlMatchesFrom(content, 0, ""),
             ExpectedTexts(content, ResourceUrlMatchesFrom(content, 0, ""),
                           folder_path))

\* C10: after the save of a filed css asset whose content does not begin with
\* the marker, the stored content is the marker line, a newline and the
\* content in which each url(raw) occurrence that is not in a comment and not
\* absolute is replaced by url('A') /* logicalurl('T') */, all other text as it
\* was.
C10_ForwardOutput ==
    (SavedCss /\ ~StartsWith(log.instance.content, "/* Filer urls already resolved */"))
        => db[log.asset].content =
              ExpectedContent(log.instance.content, PathJoin(log.instance.folder))

\* the assets stored in a folder
FiledAssets == {r \in Assets : db[r].saved /\ db[r].folder # <<>>}

\* every pair of the text for the logical path of row r carries the url of r
PairsCarryUrl(content, r) ==
    content = PairReplace(content, LogicalFilePath(db[r]), Url(db[r]))

\* C11: when a save has completed, in every stored css file that can be read
\* every pair url('U') /* logicalurl('L') */ whose L is the logical path of a
\* filed asset has the url of that asset as U.
C11_UrlsConsistent ==
    (log.op = "save" /\ ~log.err)
        => \A c \in Assets :
              (db[c].saved /\ db[c].readable)
                  => \A r \in FiledAssets : PairsCarryUrl(db[c].content, r)

\* the forward passes that the save of css c inside the last operation ran
NestedPasses(c) ==
    {p \in 1..Len(log.passes) : log.passes[p].asset = c /\ log.passes[p].depth > 0}

C13_ScannerCoverage ==
    \A k \in Rewrites :
        get_commented_regions(log.passes[k].pass.content)
            = CssCommentsFrom(log.passes[k].pass.content, 0)

\* the assets whose content a forward or a reverse pass of the last operation
\* has rewritten
RewrittenAssets ==
    {log.passes[k].asset : k \in Rewrites}
        \cup {log.scan[k].css : k \in {j \in 1..Len(log.scan) :
                                          log.scan[j].outcome = "updated"}}

\* the hash and the size stored for asset a are those of its whole content
MetadataOf(a) ==
    /\ db[a].sha1 = Sha1(db[a].content)
    /\ db[a].size = Len(db[a].content)

\* C14: when a save has completed, every asset whose content a forward or a
\* reverse pass has rewritten, an upload in memory or a stored file, has the
\* SHA-1 of its whole current content as its hash and the length of that
\* content as its size.
C14_MetadataIntegrity ==
    (log.op = "save" /\ ~log.err) => \A a \in RewrittenAssets : MetadataOf(a)

\* the offsets where a logicalurl marker starts in a text
MarkerStarts(content) == Occurrences(content, "/* logicalurl('", 0)

\* the text from offset q up to the marker at offset p is  url('U')  and one
\* space, U without a quote
UrlTokenBefore(content, q, p) ==
    /\ HasAt(content, q, "url('")
    /\ q + 5 <= p - 3
    /\ HasAt(content, p - 3, "') ")
    /\ Occurrences(Slice(content, q + 5, p - 3), "'", 0) = {}

\* the marker at offset p comes right after one url('U') token and one space
WellPreceded(content, p) ==
    /\ Cardinality({q \in 0..(p - 8) : UrlTokenBefore(content, q, p)}) = 1
    /\ ~HasAt(content, p - 2, "  ")

\* the markers of a text from offset i on, in the order they occur
RECURSIVE MarkersFrom(_, _)
MarkersFrom(content, i) ==
    LET p == Find(content, "/* logicalurl('", i)
        e == Find(content, "') */", p + 15)
    IN  IF p < 0 \/ e < 0 THEN <<>>
        ELSE <<Slice(content, p, e + 5)>> \o MarkersFrom(content, e + 5)

\* C15: when a save has completed, every logicalurl marker in the content of a
\* stored asset comes right after exactly one url('U') token and one space, and
\* every css the reverse pass updated has the markers it had, each once and in
\* the same order.
C15_MarkerWellFormed ==
    (log.op = "save" /\ ~log.err)
        => /\ \A c \in Assets :
                 db[c].saved
                     => \A p \in MarkerStarts(db[c].content) :
                           WellPreceded(db[c].content, p)
           /\ \A k \in 1..Len(log.scan) :
                 log.scan[k].outcome = "updated"
                     => /\ MarkersFrom(log.scan[k].new_content, 0)
                             = MarkersFrom(log.scan[k].content, 0)
                        /\ MarkersFrom(db[log.scan[k].css].content, 0)
                             = MarkersFrom(log.scan[k].content, 0)

\* the reverse pass updated a css that holds two markers, and the css stored
\* holds both
C15_Witness ==
    /\ log.op = "save" /\ ~log.err
    /\ \E k \in 1..Len(log.scan) :
          /\ log.scan[k].outcome = "updated"
          /\ Len(MarkersFrom(log.scan[k].content, 0)) = 2
          /\ Cardinality(MarkerStarts(db[log.scan[k].css].content)) = 2

\* event i of the last operation is ev for the save of asset a at the depth
IsEvent(i, ev, a, depth) ==
    /\ i \in 1..Len(log.events)
    /\ log.events[i] = [ev |-> ev, asset |-> a, depth |-> depth]

\* the row written at event i is followed at once by the reverse pass of that
\* save, and the cache invalidation of that save comes when the reverse pass
\* and the saves it ran are over; each of the two runs once
PostSaveInOrder(i, a, depth) ==
    /\ IsEvent(i + 1, "update_referencing_css_files", a, depth)
    /\ \E j \in (i + 2)..Len(log.events) :
          /\ IsEvent(j, "clear_urls_cache", a, depth)
          /\ \A m \in (i + 2)..(j - 1) : log.events[m].depth > depth
    /\ Cardinality({m \in 1..Len(log.events) :
                       IsEvent(m, "update_referencing_css_files", a, depth)}) = 1
    /\ Cardinality({m \in 1..Len(log.events) :
                       IsEvent(m, "clear_urls_cache", a, depth)}) = 1

\* the forward pass of asset a at the depth ran right before its row was
\* written and not after it
ForwardBeforeSaved(a, depth) ==
    /\ \E i \in 1..Len(log.events) :
          /\ IsEvent(i, "resolve_resource_urls", a, depth)
          /\ IsEvent(i + 1, "saved", a, depth)
    /\ \A i, j \in 1..Len(log.events) :
          (IsEvent(i, "saved", a, depth)
              /\ IsEvent(j, "resolve_resource_urls", a, depth)) => j < i

ForwardRewritten(c) ==
    /\ log.before[c].saved
    /\ _is_css(log.before[c])
    /\ StartsWith(log.before[c].content, ALREADY_PARSED_MARKER)

\* the assets the reverse pass of the last operation went through
Enumerated == {log.scan[k].css : k \in 1..Len(log.scan)}

\* C17: when a filed asset that is not css is saved, every stored asset that
\* the forward pass took for css and rewrote is among the assets the reverse
\* pass goes through.
C17_ScanCoverage ==
    (log.op = "save" /\ ~log.err
        /\ ~_is_css(log.instance) /\ log.instance.folder # <<>>)
        => \A c \in Assets : ForwardRewritten(c) => c \in Enumerated

====
